---- MODULE Spec2Model ----
(***************************************************************************)
(* Chatty: cursor pagination of the messages of a group.                   *)
(*                                                                         *)
(* The store holds the messages of the groups; the messages resolver of    *)
(* server/data/logic.js turns a ConnectionInput (first, after, last,       *)
(* before) into a page of edges with pageInfo; the messages screen of the  *)
(* client scrolls through a group by following the cursor of the last edge *)
(* it holds.                                                               *)
(***************************************************************************)
EXTENDS Integers, Sequences, FiniteSets

(***************************************************************************)
(* Bounds of the model.                                                    *)
(***************************************************************************)
\* number of messages created in one behaviour
MaxMessages == 4
\* largest page size (first, last, ITEMS_PER_PAGE) drawn as an input
MaxFirst == 2
\* largest number of responses in a batch given to the afterware
MaxBatch == 2
\* number of users created in one behaviour
MaxUsers == 4
\* number of messages delivered to the cache in one behaviour, and the
\* latest createdAt a message may have
MaxDelivered == 3
MaxCreatedAt == 3
\* id of the first message created here; earlier ids belong to messages of
\* groups outside the model, and 9 lets the ids go from one to two digits
FirstMessageId == 9

\* the groups that exist, and the group ids a request may name
Groups == {1, 2}
RequestGroupIds == Groups \cup {3}

\* an optional Int field of an input that is not given (schema: first: Int)
Absent == -2
\* an optional String field of an input that is not given
NoCursor == << >>

(***************************************************************************)
(* Cursors: the base64 text of the decimal text of a message id.           *)
(* A text is a sequence of character codes; a base64 text is a sequence of *)
(* sextets 0..63 with Pad for '='.                                         *)
(***************************************************************************)
Pad == 64

RECURSIVE toString(_)
\* the decimal digits of a natural number, as character codes 48..57
toString(n) ==
  IF n < 10 THEN << 48 + n >>
  ELSE Append(toString(n \div 10), 48 + (n % 10))

RECURSIVE ParseDigits(_, _)
\* the number written by a sequence of digit codes, read after acc
ParseDigits(s, acc) ==
  IF s = << >> THEN acc
  ELSE ParseDigits(Tail(s), 10 * acc + (Head(s) - 48))

IsDigits(s) == s # << >> /\ \A i \in 1..Len(s) : s[i] \in 48..57

RECURSIVE Base64Encode(_)
\* base64 of a text: three bytes make four sextets, the tail is padded
Base64Encode(bytes) ==
  IF bytes = << >> THEN << >>
  ELSE IF Len(bytes) = 1 THEN
    << bytes[1] \div 4, (bytes[1] % 4) * 16, Pad, Pad >>
  ELSE IF Len(bytes) = 2 THEN
    << bytes[1] \div 4, (bytes[1] % 4) * 16 + bytes[2] \div 16,
       (bytes[2] % 16) * 4, Pad >>
  ELSE
    << bytes[1] \div 4, (bytes[1] % 4) * 16 + bytes[2] \div 16,
       (bytes[2] % 16) * 4 + bytes[3] \div 64, bytes[3] % 64 >>
       \o Base64Encode(SubSeq(bytes, 4, Len(bytes)))

\* a well-formed base64 text: groups of four, padding only at the very end
IsBase64(c) ==
  /\ Len(c) % 4 = 0
  /\ \A i \in 1..Len(c) : c[i] \in 0..Pad
  /\ \A i \in 1..Len(c) : c[i] = Pad => i >= Len(c) - 1
  /\ (Len(c) > 0 /\ c[Len(c) - 1] = Pad) => c[Len(c)] = Pad

RECURSIVE Base64Decode(_)
\* the bytes of a well-formed base64 text
Base64Decode(c) ==
  IF c = << >> THEN << >>
  ELSE
    LET b1 == c[1] * 4 + c[2] \div 16
        b2 == (c[2] % 16) * 16 + c[3] \div 4
        b3 == (c[3] % 4) * 64 + c[4]
    IN  IF c[3] = Pad THEN << b1 >>
        ELSE IF c[4] = Pad THEN << b1, b2 >>
        ELSE << b1, b2, b3 >> \o Base64Decode(SubSeq(c, 5, Len(c)))

\* a wrong encoding: the base64 of the id taken as one byte, not of its text
EncodeCursorOfByte(id) == Base64Encode(<< id >>)

\* the cursor of the message with this id
EncodeCursor(id) == Base64Encode(toString(id))

\* the ordering key a cursor stands for, when it stands for one
DecodeCursor(cursor) ==
  IF IsBase64(cursor) /\ IsDigits(Base64Decode(cursor))
  THEN [ok |-> TRUE, key |-> ParseDigits(Base64Decode(cursor), 0)]
  ELSE [ok |-> FALSE, key |-> 0]

(***************************************************************************)
(* State.                                                                  *)
(***************************************************************************)
VARIABLES
  store,    \* the Message table: a set of [id, groupId]
  nextId,   \* the id the store gives to the next message
  call,     \* the last paginateMessages call and what it returned
  scroll,   \* the messages screen: the edges loaded so far for one group
  auth,     \* client: store.getState().auth
  chain,    \* client: the last invocation of the middleware, the afterware
            \* or the link, after the one before it if there was one
  users,    \* the User table: a set of [id, email]
  pending,  \* the signup calls in progress, one per caller
  overview  \* client: the groups of the user in the cache, per group the
            \* messages delivered and the first edge held

pagingVars == << store, nextId, call, scroll >>
clientVars == << auth, chain >>
signupVars == << users, pending >>
vars == << pagingVars, clientVars, signupVars, overview >>

\* a wrong order: id ascending, oldest first
CanonicalAscending(ms) ==
  [i \in 1..Cardinality(ms) |->
     CHOOSE m \in ms : Cardinality({o \in ms : o.id < m.id}) = i - 1]

\* the messages of a set in canonical order: id descending, newest first;
\* the i-th is the one with i - 1 newer messages
Canonical(ms) ==
  [i \in 1..Cardinality(ms) |->
     CHOOSE m \in ms : Cardinality({o \in ms : o.id > m.id}) = i - 1]

(***************************************************************************)
(* The messages resolver.                                                  *)
(***************************************************************************)
\* a wrong default of the resolver: a page size of its own
EmptyConnectionFirstOne ==
  [first |-> 1, last |-> Absent, before |-> NoCursor, after |-> NoCursor]

\* { messageConnection = {} }: the input of a request that gives none
EmptyConnection ==
  [first |-> Absent, last |-> Absent, before |-> NoCursor, after |-> NoCursor]

\* wrong destructurings of the input: the cursors taken for one another,
\* the sizes taken for one another, or one field never read
ConnectionArgsCursorsSwapped(messageConnection) ==
  [first  |-> messageConnection.first,
   last   |-> messageConnection.last,
   before |-> messageConnection.after,
   after  |-> messageConnection.before]

ConnectionArgsSizesSwapped(messageConnection) ==
  [first  |-> messageConnection.last,
   last   |-> messageConnection.first,
   before |-> messageConnection.before,
   after  |-> messageConnection.after]

ConnectionArgsWithoutFirst(messageConnection) ==
  [first  |-> Absent,
   last   |-> messageConnection.last,
   before |-> messageConnection.before,
   after  |-> messageConnection.after]

ConnectionArgsWithoutAfter(messageConnection) ==
  [first  |-> messageConnection.first,
   last   |-> messageConnection.last,
   before |-> messageConnection.before,
   after  |-> NoCursor]

ConnectionArgsWithoutBefore(messageConnection) ==
  [first  |-> messageConnection.first,
   last   |-> messageConnection.last,
   before |-> NoCursor,
   after  |-> messageConnection.after]

\* const { first, last, before, after } = messageConnection
ConnectionArgs(messageConnection) ==
  [first  |-> messageConnection.first,
   last   |-> messageConnection.last,
   before |-> messageConnection.before,
   after  |-> messageConnection.after]

\* a wrong base query: no condition on the group, messages of every group
BaseWhereOfAnyGroup(group) == << >>

\* const where = { groupId: group.id }: the messages of the right group
BaseWhere(group) == [groupId |-> group.id]

\* a wrong failure: the error comes together with an empty page
FailureWithPage(kind) ==
  [ok |-> FALSE, error |-> kind, edges |-> << >>,
   pageInfo |-> [hasNextPage |-> FALSE, hasPreviousPage |-> FALSE]]

\* a call that fails: the kind of its error and nothing else
Failure(kind) == [ok |-> FALSE, error |-> kind]

Connection(nodes, hasNext, hasPrevious) ==
  [ok |-> TRUE,
   edges |-> [i \in 1..Len(nodes) |->
                [cursor |-> EncodeCursor(nodes[i].id), node |-> nodes[i]]],
   pageInfo |-> [hasNextPage |-> hasNext, hasPreviousPage |-> hasPrevious]]

\* the leading n elements of a sequence
Take(s, n) == SubSeq(s, 1, IF n < Len(s) THEN n ELSE Len(s))
\* the trailing n elements of a sequence
TakeLast(s, n) == SubSeq(s, IF n < Len(s) THEN Len(s) - n + 1 ELSE 1, Len(s))

\* a row of a table satisfies a where clause: it has the value the clause
\* gives for every column the clause names
Matches(row, where) == \A column \in DOMAIN where : row[column] = where[column]

\* the value of an expression, named once: the element of a singleton
Only(S) == CHOOSE x \in S : TRUE

\* edges and pageInfo of the page P, the trailing last of F; skipped counts
\* the elements of the canonical order before the bounded set
Page(inGroup, skipped, F, P) ==
  Connection(P, skipped + Len(F) < Cardinality(inGroup),
                skipped + Len(F) - Len(P) > 0)

\* The page a connection input selects from the canonical order: the after
\* and before bounds give B, the leading first of B gives F, the trailing
\* last of F gives the page; pageInfo says what the canonical order holds
\* beyond the end of F and before the start of the page.
Window(where, first, last, before, after) ==
  Only({
    IF (first # Absent /\ first < 0) \/ (last # Absent /\ last < 0)
      THEN Failure("InvalidRange")
    ELSE IF (after # NoCursor /\ ~a.ok) \/ (before # NoCursor /\ ~b.ok)
      THEN Failure("InvalidCursor")
    ELSE IF (after # NoCursor /\ \A m \in inGroup : m.id # a.key)
            \/ (before # NoCursor /\ \A m \in inGroup : m.id # b.key)
      THEN Connection(<< >>, FALSE, FALSE)
    ELSE
      Only({ Only({ Only({
        Page(inGroup,
             IF after = NoCursor THEN 0
             ELSE Cardinality({m \in inGroup : m.id >= a.key}),
             F, P)
        : P \in {IF last = Absent THEN F ELSE TakeLast(F, last)} })
        : F \in {IF first = Absent THEN B ELSE Take(B, first)} })
        : B \in {Canonical({m \in inGroup :
                   /\ after = NoCursor \/ m.id < a.key
                   /\ before = NoCursor \/ m.id > b.key})} })
    : inGroup \in {{m \in store : Matches(m, where)}},
      a \in {DecodeCursor(after)},
      b \in {DecodeCursor(before)} })

\* messages(group, { messageConnection = {} })
messages(group, args) ==
  Only({ Window(BaseWhere(group), c.first, c.last, c.before, c.after)
         : c \in {ConnectionArgs(IF "messageConnection" \in DOMAIN args
                                 THEN args.messageConnection
                                 ELSE EmptyConnection)} })

\* a wrong entry point: the group is not looked up, an unknown groupId is
\* answered as a group without messages
paginateMessagesOfAnyGroupId(groupId, connectionInput) ==
  messages([id |-> groupId], [messageConnection |-> connectionInput])

\* paginateMessages(groupId, connectionInput) -> Connection
paginateMessages(groupId, connectionInput) ==
  IF groupId \notin Groups THEN Failure("NotFound")
  ELSE messages([id |-> groupId], [messageConnection |-> connectionInput])

\* the messages field of a group asked with the arguments of a request, which
\* may hold no messageConnection
resolveMessages(groupId, args) ==
  IF groupId \notin Groups THEN Failure("NotFound")
  ELSE messages([id |-> groupId], args)

(***************************************************************************)
(* Inputs.                                                                 *)
(***************************************************************************)
\* texts that are no cursor: "QQ==" is the base64 of "A", "0" is no base64
BadCursors == { << 16, 16, Pad, Pad >>, << 52 >> }

\* page sizes a request may give, the negative one included
Sizes == {Absent} \cup (-1 .. MaxFirst)

\* cursors a request may give: none, a bad one, or the cursor of any message
\* of the store, of the requested group or of another
Cursors == {NoCursor} \cup BadCursors \cup {EncodeCursor(m.id) : m \in store}

ConnectionInputs ==
  [first : Sizes, last : Sizes, before : Cursors, after : Cursors]

(***************************************************************************)
(* Operations.                                                             *)
(***************************************************************************)
NoCall == [kind |-> "none"]
Idle   == [pc |-> "idle"]

\* values of the client's JavaScript: undefined, and a string
Undefined == [type |-> "undefined"]
Str(s) == [type |-> "string", value |-> s]

\* the callers of signup, and a caller with no signup in progress
Callers == {1, 2}
NoSignup == [pc |-> "idle"]

\* the messages of a group in the overview before any message is delivered
NoMessages == [delivered |-> {}, edges |-> << >>]

Init ==
  /\ store = {}
  /\ nextId = FirstMessageId
  /\ call = NoCall
  /\ scroll = Idle
  /\ auth = [jwt |-> Undefined]
  /\ chain = << >>
  /\ users = {}
  /\ pending = [caller \in Callers |-> NoSignup]
  /\ overview = [g \in Groups |-> NoMessages]

\* createMessage: the store gives the new message the next id
CreateMessage(groupId) ==
  /\ nextId < FirstMessageId + MaxMessages
  /\ store' = store \cup {[id |-> nextId, groupId |-> groupId]}
  /\ nextId' = nextId + 1
  /\ UNCHANGED << call, scroll >>
  /\ UNCHANGED << clientVars, signupVars, overview >>

\* a wrong resolver: a destructive read, the messages of the page it returns
\* are taken out of the store
QueryConsumingPage ==
  /\ call = NoCall
  /\ \E groupId \in RequestGroupIds, connectionInput \in ConnectionInputs :
       \E r \in {paginateMessages(groupId, connectionInput)} :
         /\ call' = [kind |-> "call", groupId |-> groupId,
                     input |-> connectionInput, result |-> r, at |-> nextId]
         /\ store' = IF r.ok
                       THEN store \ {r.edges[i].node : i \in 1..Len(r.edges)}
                       ELSE store
  /\ UNCHANGED << nextId, scroll >>
  /\ UNCHANGED << clientVars, signupVars, overview >>

\* a request reaches the resolver, which answers it
Query ==
  /\ call = NoCall
  /\ \E groupId \in RequestGroupIds, connectionInput \in ConnectionInputs :
       call' = [kind |-> "call", groupId |-> groupId,
                input |-> connectionInput,
                result |-> paginateMessages(groupId, connectionInput),
                at |-> nextId]
  /\ UNCHANGED << store, nextId, scroll >>
  /\ UNCHANGED << clientVars, signupVars, overview >>

\* the answer is delivered to the caller
Respond ==
  /\ call # NoCall
  /\ call' = NoCall
  /\ UNCHANGED << store, nextId, scroll >>
  /\ UNCHANGED << clientVars, signupVars, overview >>

\* the operations of the client that select the messages of a group and give
\* no variables of their own
Operations == {"createGroup", "group", "groupAdded"}

\* a wrong declaration: every operation with the default of the group query
DeclaredDefaultOfGroupQuery(operation) ==
  [messageConnection |-> [first |-> 0, last |-> Absent,
                          before |-> NoCursor, after |-> NoCursor]]

\* the arguments the messages field gets when the request gives no variables:
\* the default the operation declares for $messageConnection,
\*   createGroup   ConnectionInput = { first: 1 }
\*   group         ConnectionInput = {first: 0}
\*   onGroupAdded  ConnectionInput, no default: no argument at all
DeclaredDefault(operation) ==
  IF operation = "createGroup"
    THEN [messageConnection |-> [first |-> 1, last |-> Absent,
                                 before |-> NoCursor, after |-> NoCursor]]
  ELSE IF operation = "group"
    THEN [messageConnection |-> [first |-> 0, last |-> Absent,
                                 before |-> NoCursor, after |-> NoCursor]]
  ELSE << >>

\* a request without variables reaches the resolver, which answers it; input
\* is the connection input in effect
QueryByDefault ==
  /\ call = NoCall
  /\ \E groupId \in RequestGroupIds, operation \in Operations :
       \E args \in {DeclaredDefault(operation)} :
         call' = [kind |-> "default", operation |-> operation,
                  groupId |-> groupId,
                  input |-> IF "messageConnection" \in DOMAIN args
                              THEN args.messageConnection
                              ELSE EmptyConnection,
                  result |-> resolveMessages(groupId, args),
                  at |-> nextId]
  /\ UNCHANGED << store, nextId, scroll >>
  /\ UNCHANGED << clientVars, signupVars, overview >>

\* groupQuery options: variables of the first page of the messages screen
GroupQueryVariables(itemsPerPage) ==
  [first |-> itemsPerPage, last |-> Absent,
   before |-> NoCursor, after |-> NoCursor]

\* wrong variables of fetchMore: after the first (newest) edge held, or with
\* no cursor at all
LoadMoreVariablesFromFirstEdge(itemsPerPage, edges) ==
  [first |-> itemsPerPage, last |-> Absent,
   before |-> NoCursor, after |-> edges[1].cursor]

LoadMoreVariablesWithoutCursor(itemsPerPage, edges) ==
  [first |-> itemsPerPage, last |-> Absent,
   before |-> NoCursor, after |-> NoCursor]

\* loadMoreEntries: variables of fetchMore, after the last (oldest) edge held
LoadMoreVariables(itemsPerPage, edges) ==
  [first |-> itemsPerPage, last |-> Absent,
   before |-> NoCursor, after |-> edges[Len(edges)].cursor]

\* the messages screen of a group loads its first page
StartScroll(groupId, itemsPerPage) ==
  /\ scroll = Idle
  /\ \E r \in {paginateMessages(groupId, GroupQueryVariables(itemsPerPage))} :
         scroll' = [pc |-> IF r.pageInfo.hasNextPage THEN "more" ELSE "done",
                    groupId |-> groupId, first |-> itemsPerPage,
                    edges |-> r.edges, page |-> r.edges,
                    pageInfo |-> r.pageInfo,
                    calls |-> 1, at |-> nextId]
  /\ UNCHANGED << store, nextId, call >>
  /\ UNCHANGED << clientVars, signupVars, overview >>

\* the screen reaches the end of its list and fetches the next page, which it
\* appends to the edges it holds
LoadMore ==
  /\ scroll.pc = "more"
  /\ Len(scroll.edges) > 0
  /\ Len(scroll.edges) < MaxMessages
  /\ \E r \in {paginateMessages(scroll.groupId,
                  LoadMoreVariables(scroll.first, scroll.edges))} :
         scroll' = [scroll EXCEPT
                      !.pc = IF r.pageInfo.hasNextPage THEN "more" ELSE "done",
                      !.edges = scroll.edges \o r.edges,
                      !.page = r.edges,
                      !.pageInfo = r.pageInfo,
                      !.calls = scroll.calls + 1]
  /\ UNCHANGED << store, nextId, call >>
  /\ UNCHANGED << clientVars, signupVars, overview >>

Next ==
  \/ \E g \in Groups : CreateMessage(g)
  \/ Query
  \/ QueryByDefault
  \/ Respond

Spec == Init /\ [][Next]_vars

NextScroll ==
  \/ \E g \in Groups : CreateMessage(g)
  \/ \E g \in Groups, k \in 1..MaxFirst : StartScroll(g, k)
  \/ LoadMore

SpecScroll == Init /\ [][NextScroll]_vars

\* the screen keeps fetching while there is more to fetch
SpecScrollFair == SpecScroll /\ WF_vars(LoadMore)

(***************************************************************************)
(* The client: the middleware, the afterware and the link of app.js.       *)
(***************************************************************************)
\* a value an if takes for true: a string that is not empty
Truthy(v) == v.type = "string" /\ v.value # ""

\* what auth.jwt may hold: nothing, the empty string, a token
Jwts == {Undefined, Str(""), Str("a"), Str("b")}

\* the headers of a request, each a string or undefined; {} is NoHeaders
NoHeaders == [authorization |-> Undefined, accept |-> Undefined]

Headers ==
  { NoHeaders,
    [authorization |-> Undefined, accept |-> Str("json")],
    [authorization |-> Str("Bearer old"), accept |-> Str("json")] }

\* the requests the middleware is given: req.options.headers may be undefined
Requests == {[options |-> [headers |-> h]] : h \in {Undefined} \cup Headers}

\* a wrong middleware: the header is set without looking at the jwt
applyBatchMiddlewareAlwaysBearer(req, state) ==
  LET headers == IF req.options.headers = Undefined
                   THEN NoHeaders ELSE req.options.headers
      jwt == state.auth.jwt
  IN  [req |-> [options |-> [headers |->
                  [headers EXCEPT !.authorization =
                     Str("Bearer " \o (IF jwt.type = "string"
                                         THEN jwt.value ELSE "undefined"))]]],
       nexts |-> 1]

\* applyBatchMiddleware(req, next), state being store.getState(): the request
\* as it leaves and the number of calls of next
applyBatchMiddleware(req, state) ==
  LET headers == IF req.options.headers = Undefined
                   THEN NoHeaders ELSE req.options.headers
      jwt == state.auth.jwt
  IN  [req |-> [options |-> [headers |->
                  IF Truthy(jwt)
                    THEN [headers EXCEPT !.authorization =
                            Str("Bearer " \o jwt.value)]
                    ELSE headers]],
       nexts |-> 1]

\* the errors of a response: response.errors is undefined or an array of
\* errors, each with a message
Error(message) == [message |-> message]
Array(items) == [type |-> "array", items |-> items]

ErrorLists ==
  { << >>, << Error("Unauthorized") >>, << Error("Forbidden") >>,
    << Error("Forbidden"), Error("Unauthorized") >> }

Responses == {[errors |-> e] : e \in {Undefined} \cup {Array(l) : l \in ErrorLists}}

\* the batches of responses the afterware is given
Batches == UNION {[1..n -> Responses] : n \in 0..MaxBatch}

\* _.some(errors, { message })
some(errors, message) ==
  \E i \in 1..Len(errors.items) : errors.items[i].message = message

\* responses.forEach(...): isUnauthorized after the responses from the i-th on
RECURSIVE forEach(_, _, _)
forEach(responses, i, isUnauthorized) ==
  IF i > Len(responses) THEN isUnauthorized
  ELSE forEach(responses, i + 1,
               IF responses[i].errors # Undefined
                    /\ some(responses[i].errors, "Unauthorized")
                 THEN TRUE ELSE isUnauthorized)

\* wrong afterwares: logout dispatched inside the loop, once per unauthorized
\* response; and a return after the logout, before next
applyBatchAfterwareLogoutInLoop(responses) ==
  [dispatched |->
     [i \in 1..Cardinality({k \in 1..Len(responses) :
                              forEach(<< responses[k] >>, 1, FALSE)})
        |-> "logout"],
   nexts |-> 1]

applyBatchAfterwareReturnAfterLogout(responses) ==
  [dispatched |-> IF forEach(responses, 1, FALSE)
                    THEN << "logout" >> ELSE << >>,
   nexts |-> IF forEach(responses, 1, FALSE) THEN 0 ELSE 1]

\* applyBatchAfterware({ responses }, next): the actions dispatched to the
\* store and the number of calls of next
applyBatchAfterware(responses) ==
  [dispatched |-> IF forEach(responses, 1, FALSE)
                    THEN << "logout" >> ELSE << >>,
   nexts |-> 1]

\* the definitions of a document
OperationDefinition(operation) ==
  [kind |-> "OperationDefinition", operation |-> operation]

FragmentDefinition == [kind |-> "FragmentDefinition"]

\* the documents given to the link
Documents ==
  { << OperationDefinition("query") >>,
    << OperationDefinition("mutation") >>,
    << OperationDefinition("subscription") >>,
    << FragmentDefinition, OperationDefinition("subscription") >>,
    << FragmentDefinition, OperationDefinition("mutation") >>,
    << FragmentDefinition >> }

\* getMainDefinition(query): the first operation of the document, or its
\* first fragment when it has no operation
getMainDefinition(query) ==
  LET operations == {i \in 1..Len(query) :
                       query[i].kind = "OperationDefinition"}
  IN  IF operations = {} THEN query[1]
      ELSE query[CHOOSE i \in operations : \A k \in operations : i <= k]

\* a wrong split: the two links given in the other order
requestLinkSwapped(links, operation) ==
  LET definition == getMainDefinition(operation.query)
  IN  IF definition.kind = "OperationDefinition"
           /\ definition.operation = "subscription"
        THEN links.queryOrMutationLink
        ELSE links.subscriptionLink

\* requestLink({ queryOrMutationLink, subscriptionLink }): ApolloLink.split on
\* the main definition of the operation
requestLink(links, operation) ==
  LET definition == getMainDefinition(operation.query)
  IN  IF definition.kind = "OperationDefinition"
           /\ definition.operation = "subscription"
        THEN links.subscriptionLink
        ELSE links.queryOrMutationLink

\* link = ApolloLink.from([reduxLink, requestLink({...})]): the links an
\* operation passes, in order
link(operation) ==
  << "reduxLink",
     requestLink([queryOrMutationLink |-> "httpLink",
                  subscriptionLink |-> "webSocketLink"], operation) >>

\* the chain after one more invocation: the last one before it, and it
Record(entry) ==
  IF chain = << >> THEN << entry >> ELSE << chain[Len(chain)], entry >>

\* the auth reducer handles an action (login, logout, rehydration): the jwt
\* it holds changes
AuthChange ==
  /\ \E jwt \in Jwts \ {auth.jwt} : auth' = [jwt |-> jwt]
  /\ UNCHANGED << chain, pagingVars, signupVars, overview >>

\* a request passes the middleware
ApplyBatchMiddleware ==
  /\ \E req \in Requests :
       \E r \in {applyBatchMiddleware(req, [auth |-> auth])} :
         chain' = Record([kind |-> "middleware", given |-> req,
                          state |-> [auth |-> auth],
                          sent |-> r.req, nexts |-> r.nexts])
  /\ UNCHANGED << auth, pagingVars, signupVars, overview >>

\* a batch of responses passes the afterware; what the store does with a
\* dispatched logout reaches auth as an AuthChange
ApplyBatchAfterware ==
  /\ \E responses \in Batches :
       \E r \in {applyBatchAfterware(responses)} :
         chain' = Record([kind |-> "afterware", responses |-> responses,
                          dispatched |-> r.dispatched, nexts |-> r.nexts])
  /\ UNCHANGED << auth, pagingVars, signupVars, overview >>

\* an operation is executed through the link
Execute ==
  /\ \E query \in Documents :
       chain' = Record([kind |-> "link", query |-> query,
                        path |-> link([query |-> query])])
  /\ UNCHANGED << auth, pagingVars, signupVars, overview >>

NextClient ==
  \/ AuthChange
  \/ ApplyBatchMiddleware
  \/ ApplyBatchAfterware
  \/ Execute

SpecClient == Init /\ [][NextClient]_vars

(***************************************************************************)
(* The signup resolver.                                                    *)
(***************************************************************************)
\* the emails a signup may give
Emails == {"a@chatty", "b@chatty"}

\* User.findOne({ where }): the users the query finds, none for null
findOne(where) == {user \in users : Matches(user, where)}

\* the signup calls that have not returned
InProgress == {caller \in Callers : pending[caller] # NoSignup}

\* signup(_, signinUserInput, ctx): the resolver takes the email of its input
\* and asks for the user of that email; the query is answered from the table
\* as it is now, the callback runs later
Signup(caller, email) ==
  /\ pending[caller] = NoSignup
  /\ Cardinality(users) + Cardinality(InProgress) < MaxUsers
  /\ pending' = [pending EXCEPT ![caller] =
                   [pc |-> "then", email |-> email,
                    existing |-> findOne([email |-> email])]]
  /\ UNCHANGED << users, pagingVars, clientVars, overview >>

\* .then((existing) => { if (!existing) { ... } }): the callback of the query;
\* without an existing user the user signing up is created, with one the
\* signup is refused
SignupThen(caller) ==
  /\ pending[caller] # NoSignup
  /\ users' = IF pending[caller].existing = {}
                THEN users \cup {[id |-> Cardinality(users) + 1,
                                  email |-> pending[caller].email]}
                ELSE users
  /\ pending' = [pending EXCEPT ![caller] = NoSignup]
  /\ UNCHANGED << pagingVars, clientVars, overview >>

NextSignup ==
  \/ \E caller \in Callers, email \in Emails : Signup(caller, email)
  \/ \E caller \in Callers : SignupThen(caller)

SpecSignup == Init /\ [][NextSignup]_vars

(***************************************************************************)
(* The createMessage cache update of the messages screen.                  *)
(***************************************************************************)
\* the messages delivered to the cache so far, of all groups
Delivered == UNION {overview[g].delivered : g \in Groups}

\* the edge written for a message
MessageEdge(message) == [typename |-> "MessageEdge", node |-> message]

\* edges[0] = edge
SetFirst(edges, edge) ==
  IF edges = << >> THEN << edge >> ELSE [edges EXCEPT ![1] = edge]

\* wrong updates: the first edge replaced whatever it holds, and replaced
\* when it is not older than the new message
updateLatestAlways(edges, message) == SetFirst(edges, MessageEdge(message))

\* check whether the mutation is the latest message and update cache: the
\* edges of the updated group afterwards
updateLatest(edges, message) ==
  IF Len(edges) = 0 \/ edges[1].node.createdAt < message.createdAt
    THEN SetFirst(edges, MessageEdge(message))
    ELSE edges

\* update(store, { data: { createMessage } }): a created message reaches the
\* cache, its createdAt earlier or later than those already there
CreateMessageUpdate(groupId, createdAt) ==
  /\ Cardinality(Delivered) < MaxDelivered
  /\ \E message \in {[id |-> Cardinality(Delivered) + 1,
                      groupId |-> groupId, createdAt |-> createdAt]} :
       overview' = [overview EXCEPT ![message.groupId] =
                      [delivered |-> @.delivered \cup {message},
                       edges |-> updateLatest(@.edges, message)]]
  /\ UNCHANGED << pagingVars, clientVars, signupVars >>

NextOverview ==
  \E groupId \in Groups, createdAt \in 1..MaxCreatedAt :
    CreateMessageUpdate(groupId, createdAt)

SpecOverview == Init /\ [][NextOverview]_vars

(***************************************************************************)
(* Properties.                                                             *)
(***************************************************************************)
\* the messages of a group
GroupMessages(groupId) == {m \in store : m.groupId = groupId}

\* the messages the group of the last call had when the call was made:
\* messages created since have ids from call.at on
GroupAtCall == {m \in GroupMessages(call.groupId) : m.id < call.at}

\* the last call returned a Connection
Answered == call # NoCall /\ call.result.ok

\* the nodes of a list of edges
Nodes(edges) == [i \in 1..Len(edges) |-> edges[i].node]

\* a cursor field of the last call refers to a message of the requested group
RefersToMessage(cursor) ==
  /\ cursor # NoCursor
  /\ DecodeCursor(cursor).ok
  /\ \E m \in GroupAtCall : m.id = DecodeCursor(cursor).key

\* the messages the scrolled group had when the scroll began
GroupAtScroll == {m \in GroupMessages(scroll.groupId) : m.id < scroll.at}

\* C1: forward pagination is complete: when the screen has followed the after
\* cursors from {first: k} until hasNextPage is false, the edges it holds are
\* exactly the messages the group had when it began, in descending id order,
\* none twice and none left out.
ForwardPaginationComplete ==
  scroll.pc = "done" => Nodes(scroll.edges) = Canonical(GroupAtScroll)

\* a scroll of three messages in pages of two is done after two calls
ForwardPaginationWitness ==
  /\ scroll.pc = "done"
  /\ scroll.calls = 2
  /\ scroll.first = 2
  /\ Len(scroll.edges) = 3

\* C2: the edges of every returned page are in strictly decreasing id order.
EdgesStrictlyDecreasing ==
  Answered =>
    \A i, j \in 1..Len(call.result.edges) :
      i < j => call.result.edges[i].node.id > call.result.edges[j].node.id

\* a page of three edges was returned
EdgesDecreasingWitness ==
  /\ Answered
  /\ Len(call.result.edges) = 3

\* C3: cursor round trip: the cursor of every returned edge decodes to the id
\* of its message, and so does the cursor of every id the store has given.
CursorRoundTrip ==
  /\ Answered =>
       \A i \in 1..Len(call.result.edges) :
         DecodeCursor(call.result.edges[i].cursor)
           = [ok |-> TRUE, key |-> call.result.edges[i].node.id]
  /\ \A id \in FirstMessageId .. nextId :
       DecodeCursor(EncodeCursor(id)) = [ok |-> TRUE, key |-> id]

\* a page was returned with the cursor of a two-digit id
CursorRoundTripWitness ==
  /\ Answered
  /\ \E i \in 1..Len(call.result.edges) :
       /\ call.result.edges[i].node.id >= 10
       /\ Len(call.result.edges[i].cursor) = 4

\* C4: cursor stability under insertion: the page returned for
\* {first: k, after: c}, c the cursor of a message of the group, is the page
\* the same request returns after any number of later insertions.
StableUnderInsertion ==
  ( /\ Answered
    /\ call.input.first # Absent
    /\ call.input.last = Absent
    /\ call.input.before = NoCursor
    /\ RefersToMessage(call.input.after) )
  => paginateMessages(call.groupId, call.input) = call.result

\* a non-empty page after a cursor was returned, and a message was then
\* inserted into the same group
StableUnderInsertionWitness ==
  /\ Answered
  /\ call.input.first # Absent
  /\ call.input.last = Absent
  /\ call.input.before = NoCursor
  /\ RefersToMessage(call.input.after)
  /\ Len(call.result.edges) > 0
  /\ \E m \in GroupMessages(call.groupId) : m.id >= call.at

\* C5: hasNextPage is true iff the group has a message after the last
\* returned edge; for {first: k} alone, iff the group has more than k messages.
HasNextPageIffMore ==
  Answered =>
    /\ Len(call.result.edges) > 0 =>
         ( call.result.pageInfo.hasNextPage
           <=> \E m \in GroupAtCall :
                 m.id < call.result.edges[Len(call.result.edges)].node.id )
    /\ ( /\ call.input.first # Absent
         /\ call.input.last = Absent
         /\ call.input.after = NoCursor
         /\ call.input.before = NoCursor )
       => ( call.result.pageInfo.hasNextPage
            <=> Cardinality(GroupAtCall) > call.input.first )

\* {first: 1} on a group of two messages has a next page
HasNextPageWitness ==
  /\ Answered
  /\ call.input = [first |-> 1, last |-> Absent,
                   before |-> NoCursor, after |-> NoCursor]
  /\ Cardinality(GroupAtCall) = 2
  /\ call.result.pageInfo.hasNextPage

\* C6: hasPreviousPage is true iff the group has a message before the first
\* returned edge; it is false for a page requested without after and without
\* last, and true for a non-empty page after the cursor of a message.
HasPreviousPageIffBefore ==
  Answered =>
    /\ Len(call.result.edges) > 0 =>
         ( call.result.pageInfo.hasPreviousPage
           <=> \E m \in GroupAtCall : m.id > call.result.edges[1].node.id )
    /\ (call.input.after = NoCursor /\ call.input.last = Absent)
         => ~call.result.pageInfo.hasPreviousPage
    /\ (RefersToMessage(call.input.after) /\ Len(call.result.edges) > 0)
         => call.result.pageInfo.hasPreviousPage

\* a non-empty page after the cursor of a message has a previous page
HasPreviousPageWitness ==
  /\ Answered
  /\ RefersToMessage(call.input.after)
  /\ Len(call.result.edges) > 0
  /\ call.result.pageInfo.hasPreviousPage

\* C7: after is exclusive and complete: every returned message is strictly
\* older than the message after refers to, and a request with after alone
\* returns every older message of the group.
AfterBoundExclusive ==
  (Answered /\ RefersToMessage(call.input.after)) =>
    LET x == DecodeCursor(call.input.after).key
    IN  /\ \A i \in 1..Len(call.result.edges) :
             call.result.edges[i].node.id < x
        /\ ( /\ call.input.first = Absent
             /\ call.input.last = Absent
             /\ call.input.before = NoCursor )
           => {call.result.edges[i].node : i \in 1..Len(call.result.edges)}
                = {m \in GroupAtCall : m.id < x}

\* after alone, with an older message to return
AfterBoundWitness ==
  /\ Answered
  /\ RefersToMessage(call.input.after)
  /\ call.input.first = Absent
  /\ call.input.last = Absent
  /\ call.input.before = NoCursor
  /\ Len(call.result.edges) > 0

\* C8: before is exclusive and complete: every returned message is strictly
\* newer than the message before refers to, and a request with before alone
\* returns every newer message of the group.
BeforeBoundExclusive ==
  (Answered /\ RefersToMessage(call.input.before)) =>
    LET y == DecodeCursor(call.input.before).key
    IN  /\ \A i \in 1..Len(call.result.edges) :
             call.result.edges[i].node.id > y
        /\ ( /\ call.input.first = Absent
             /\ call.input.last = Absent
             /\ call.input.after = NoCursor )
           => {call.result.edges[i].node : i \in 1..Len(call.result.edges)}
                = {m \in GroupAtCall : m.id > y}

\* before alone, with a newer message to return
BeforeBoundWitness ==
  /\ Answered
  /\ RefersToMessage(call.input.before)
  /\ call.input.first = Absent
  /\ call.input.last = Absent
  /\ call.input.after = NoCursor
  /\ Len(call.result.edges) > 0

\* the after/before-bounded set B of the last call
BoundedAtCall ==
  LET older(m) == call.input.after = NoCursor
                    \/ m.id < DecodeCursor(call.input.after).key
      newer(m) == call.input.before = NoCursor
                    \/ m.id > DecodeCursor(call.input.before).key
  IN  {m \in GroupAtCall : older(m) /\ newer(m)}

\* the elements of a set of messages that have fewer than n newer ones in it
Leading(ms, n) == {m \in ms : Cardinality({o \in ms : o.id > m.id}) < n}
\* the elements of a set of messages that have fewer than n older ones in it
Trailing(ms, n) == {m \in ms : Cardinality({o \in ms : o.id < m.id}) < n}

\* the cursors of the last call are absent or refer to messages of the group
CursorsResolve ==
  /\ call.input.after = NoCursor \/ RefersToMessage(call.input.after)
  /\ call.input.before = NoCursor \/ RefersToMessage(call.input.before)

\* the messages of the page of the last call
PageAtCall ==
  {call.result.edges[i].node : i \in 1..Len(call.result.edges)}

\* C9: forward then backward: the page holds the trailing last of F, F the
\* leading first of the bounded set B (B itself without first), each message
\* once; with both given it is last(first(B)).
ForwardThenBackward ==
  (Answered /\ CursorsResolve) =>
    LET B == BoundedAtCall
        F == IF call.input.first = Absent THEN B
             ELSE Leading(B, call.input.first)
        P == IF call.input.last = Absent THEN F
             ELSE Trailing(F, call.input.last)
    IN  /\ PageAtCall = P
        /\ Len(call.result.edges) = Cardinality(P)

\* first and last both given, where last(first(B)) is not first(last(B))
ForwardThenBackwardWitness ==
  /\ Answered
  /\ CursorsResolve
  /\ call.input.first # Absent
  /\ call.input.last # Absent
  /\ Len(call.result.edges) > 0
  /\ PageAtCall
       # Leading(Trailing(BoundedAtCall, call.input.last), call.input.first)

\* the oldest message of the scrolled group is in the last page fetched
LastPageHoldsOldest ==
  \/ GroupAtScroll = {} /\ scroll.page = << >>
  \/ /\ scroll.page # << >>
     /\ \A m \in GroupAtScroll :
          scroll.page[Len(scroll.page)].node.id <= m.id

\* C10: the forward pagination loop terminates: a scroll with more to fetch
\* reaches a page with hasNextPage false, and the page it ends on holds the
\* oldest message of the group (or is empty, for an empty group).
ScrollTerminates ==
  /\ [](scroll.pc = "done" => LastPageHoldsOldest)
  /\ (scroll.pc = "more") ~> (scroll.pc = "done")

\* a scroll ended on its third call
ScrollTerminatesWitness ==
  /\ scroll.pc = "done"
  /\ scroll.calls = 3
  /\ LastPageHoldsOldest

\* the last call names a group that exists
GroupExists == call # NoCall /\ call.groupId \in Groups

\* a size field of the last call is absent or zero or more
SizeAllowed(size) == size = Absent \/ size >= 0

\* a cursor field of the last call is present and is not the coding of a key
Undecodable(cursor) == cursor # NoCursor /\ ~DecodeCursor(cursor).ok

\* a cursor field of the last call decodes to a key that no message of the
\* requested group has
Dangling(cursor) ==
  /\ cursor # NoCursor
  /\ DecodeCursor(cursor).ok
  /\ \A m \in GroupAtCall : m.id # DecodeCursor(cursor).key

\* C11: for a group without messages a call with first zero or more and no
\* other field returns no edges, hasNextPage false and hasPreviousPage false;
\* so does every call with first zero or more that returns a Connection.
EmptyGroupEmptyPage ==
  (GroupExists /\ GroupAtCall = {} /\ call.input.first # Absent
     /\ call.input.first >= 0) =>
    /\ (call.input.last = Absent /\ call.input.after = NoCursor
          /\ call.input.before = NoCursor) => call.result.ok
    /\ call.result.ok =>
         /\ call.result.edges = << >>
         /\ ~call.result.pageInfo.hasNextPage
         /\ ~call.result.pageInfo.hasPreviousPage

\* first alone, more than zero, on a group without messages while the other
\* group has some
EmptyGroupWitness ==
  /\ Answered
  /\ GroupExists
  /\ GroupAtCall = {}
  /\ store # {}
  /\ call.input = [first |-> MaxFirst, last |-> Absent,
                   before |-> NoCursor, after |-> NoCursor]
  /\ call.result.edges = << >>

\* the claim as stated: with first at least the size of the bounded set the
\* page is the bounded set and hasNextPage is false, whatever last and before
FirstCoversBoundedSetAlways ==
  (Answered /\ CursorsResolve /\ call.input.first # Absent
     /\ call.input.first >= Cardinality(BoundedAtCall)) =>
    /\ PageAtCall = BoundedAtCall
    /\ ~call.result.pageInfo.hasNextPage

\* C12: with first at least the number of messages of the bounded set, and
\* last absent, every message of that set is returned, each once; with before
\* absent as well hasNextPage is false.
FirstCoversBoundedSet ==
  (Answered /\ CursorsResolve /\ call.input.first # Absent
     /\ call.input.first >= Cardinality(BoundedAtCall)
     /\ call.input.last = Absent) =>
    /\ PageAtCall = BoundedAtCall
    /\ Len(call.result.edges) = Cardinality(BoundedAtCall)
    /\ call.input.before = NoCursor => ~call.result.pageInfo.hasNextPage

\* first covers what is left after a cursor: the rest of the group is returned
FirstCoversBoundedSetWitness ==
  /\ Answered
  /\ RefersToMessage(call.input.after)
  /\ call.input.before = NoCursor
  /\ call.input.last = Absent
  /\ call.input.first # Absent
  /\ call.input.first >= Cardinality(BoundedAtCall)
  /\ Cardinality(BoundedAtCall) = MaxFirst
  /\ PageAtCall = BoundedAtCall
  /\ ~call.result.pageInfo.hasNextPage

\* C13: a call on an existing group with first or last negative fails with
\* InvalidRange, whatever the other fields are.
NegativeSizeInvalidRange ==
  (GroupExists /\ (~SizeAllowed(call.input.first)
                     \/ ~SizeAllowed(call.input.last))) =>
    call.result = Failure("InvalidRange")

\* last negative beside a first that is allowed and a cursor that cannot be
\* decoded
NegativeSizeWitness ==
  /\ GroupExists
  /\ call.input.first = MaxFirst
  /\ call.input.last < 0
  /\ Undecodable(call.input.after)
  /\ call.result = Failure("InvalidRange")

\* C14: a call whose groupId is not the id of a group fails with NotFound,
\* whatever the connection input is.
UnknownGroupNotFound ==
  (call # NoCall /\ call.groupId \notin Groups) =>
    call.result = Failure("NotFound")

\* an unknown group asked with an input that an existing group would answer
UnknownGroupWitness ==
  /\ call # NoCall
  /\ call.groupId \notin Groups
  /\ store # {}
  /\ call.input = [first |-> 1, last |-> Absent,
                   before |-> NoCursor, after |-> NoCursor]
  /\ call.result = Failure("NotFound")

DanglingCursorEmptyPage ==
  (GroupExists /\ SizeAllowed(call.input.first)
     /\ SizeAllowed(call.input.last)
     /\ ~Undecodable(call.input.after) /\ ~Undecodable(call.input.before)
     /\ (Dangling(call.input.after) \/ Dangling(call.input.before))) =>
    /\ call.result.ok
    /\ call.result.edges = << >>

\* the cursor of a message of the other group, given to a group with messages
DanglingCursorWitness ==
  /\ Answered
  /\ GroupAtCall # {}
  /\ Dangling(call.input.before)
  /\ call.input.after = NoCursor
  /\ \E m \in store : call.input.before = EncodeCursor(m.id)
  /\ call.result.edges = << >>

\* C17: a call is read-only: the step that makes a call, whether it returns a
\* Connection or fails, leaves the messages of every group, the fields of
\* every message and the next id to give as they were.
CallsReadOnly ==
  [][(call' # call /\ call' # NoCall) =>
       (store' = store /\ nextId' = nextId)]_vars

\* a failed call on a group that has messages, the store as the call left it
CallsReadOnlyWitness ==
  /\ call # NoCall
  /\ ~call.result.ok
  /\ call.groupId \in Groups
  /\ nextId = call.at
  /\ Cardinality(GroupMessages(call.groupId)) = MaxFirst

\* the kinds of error of a call
ErrorKinds == {"NotFound", "InvalidCursor", "InvalidRange"}

\* C18: a call is all-or-nothing: its result is either a Connection, edges and
\* pageInfo and no error, or one error of the three kinds and neither edges
\* nor pageInfo.
ResultAllOrNothing ==
  call # NoCall =>
    \/ /\ call.result.ok
       /\ DOMAIN call.result = {"ok", "edges", "pageInfo"}
       /\ DOMAIN call.result.pageInfo = {"hasNextPage", "hasPreviousPage"}
    \/ /\ ~call.result.ok
       /\ DOMAIN call.result = {"ok", "error"}
       /\ call.result.error \in ErrorKinds

\* a call that fails on its cursor although a page of the group could be
\* returned for its first
ResultAllOrNothingWitness ==
  /\ GroupExists
  /\ GroupAtCall # {}
  /\ call.input.first = 1
  /\ Undecodable(call.input.after)
  /\ ~call.result.ok
  /\ call.result.error = "InvalidCursor"
  /\ DOMAIN call.result = {"ok", "error"}

\* the last call came without variables, from the given operation
ByDefault(operation) ==
  /\ call # NoCall
  /\ call.kind = "default"
  /\ call.operation = operation

\* C21: a request that gives the resolver no connection input at all is
\* answered as one with the four fields absent: no size of the resolver's own
\* limits the page, every message of the group is returned, each once, and
\* both flags are false.
AbsentInputReturnsAll ==
  (ByDefault("groupAdded") /\ GroupExists) =>
    /\ call.result.ok
    /\ PageAtCall = GroupAtCall
    /\ Len(call.result.edges) = Cardinality(GroupAtCall)
    /\ ~call.result.pageInfo.hasNextPage
    /\ ~call.result.pageInfo.hasPreviousPage
    /\ nextId = call.at =>
         call.result = paginateMessages(call.groupId,
                         [first |-> Absent, last |-> Absent,
                          before |-> NoCursor, after |-> NoCursor])

\* no input at all, on a group with more messages than any default
AbsentInputWitness ==
  /\ ByDefault("groupAdded")
  /\ GroupExists
  /\ call.result.ok
  /\ Cardinality(GroupAtCall) > MaxFirst
  /\ Len(call.result.edges) = Cardinality(GroupAtCall)

\* C22: a request that gives no variables to an operation that declares
\* first = 1 returns one edge, the newest message of the group, when the group
\* has messages and no edge when it has none.
DeclaredDefaultReturnsNewest ==
  (ByDefault("createGroup") /\ GroupExists) =>
    /\ call.result.ok
    /\ GroupAtCall = {} => call.result.edges = << >>
    /\ GroupAtCall # {} =>
         /\ Len(call.result.edges) = 1
         /\ call.result.edges[1].node \in GroupAtCall
         /\ \A m \in GroupAtCall : m.id <= call.result.edges[1].node.id

\* the default on a group with several messages, the newest not the first made
DeclaredDefaultWitness ==
  /\ ByDefault("createGroup")
  /\ GroupExists
  /\ Cardinality(GroupAtCall) > 1
  /\ Len(call.result.edges) = 1
  /\ call.result.edges[1].node.id > FirstMessageId

\* C23: group scoping: every node of a returned page is a message of the
\* store that belongs to the requested group, whatever the input and whatever
\* group the messages of its cursors belong to.
ScopedToGroup ==
  Answered =>
    \A i \in 1..Len(call.result.edges) :
      /\ call.result.edges[i].node \in store
      /\ call.result.edges[i].node.groupId = call.groupId

\* a page of two messages of the group with a message of the other group made
\* between them
ScopedToGroupWitness ==
  /\ Answered
  /\ Len(call.result.edges) = 2
  /\ \E m \in store :
       /\ m.groupId # call.groupId
       /\ m.id < call.result.edges[1].node.id
       /\ m.id > call.result.edges[2].node.id

\* C24: a returned page is a contiguous slice of the group in id descending
\* order: a message of the group whose id lies between the ids of two nodes of
\* the page is a node of the page; the page has at most first edges when first
\* is given and at most last edges when last is given.
ContiguousSlice ==
  Answered =>
    /\ \A a \in PageAtCall, c \in PageAtCall, b \in GroupAtCall :
         (c.id < b.id /\ b.id < a.id) => b \in PageAtCall
    /\ call.input.first # Absent => Len(call.result.edges) <= call.input.first
    /\ call.input.last # Absent => Len(call.result.edges) <= call.input.last

\* a page of first edges from the middle of the group: the group has a newer
\* and an older message than the page
ContiguousSliceWitness ==
  /\ Answered
  /\ call.input.first = MaxFirst
  /\ Len(call.result.edges) = MaxFirst
  /\ \E m \in GroupAtCall : \A n \in PageAtCall : m.id > n.id
  /\ \E m \in GroupAtCall : \A n \in PageAtCall : m.id < n.id

\* the invocations of one handler that the chain holds
Invocations(kind) == {chain[i] : i \in {k \in 1..Len(chain) : chain[k].kind = kind}}

\* a response carries an error whose message is Unauthorized
CarriesUnauthorized(response) ==
  /\ response.errors # Undefined
  /\ \E i \in 1..Len(response.errors.items) :
       response.errors.items[i].message = "Unauthorized"

\* C25: after the afterware has processed a batch of responses it has
\* dispatched logout once, and nothing else, if a response of the batch
\* carries an error with the message Unauthorized, and has dispatched nothing
\* otherwise, also when responses carry errors with other messages.
UnauthorizedForcesLogout ==
  \A e \in Invocations("afterware") :
    e.dispatched =
      IF \E i \in 1..Len(e.responses) : CarriesUnauthorized(e.responses[i])
        THEN << "logout" >> ELSE << >>

\* a batch of two responses that both carry Unauthorized: one logout
UnauthorizedForcesLogoutWitness ==
  \E e \in Invocations("afterware") :
    /\ Len(e.responses) = 2
    /\ CarriesUnauthorized(e.responses[1])
    /\ CarriesUnauthorized(e.responses[2])
    /\ e.dispatched = << "logout" >>

\* the auth state holds a jwt
HoldsJwt(state) == state.auth.jwt # Undefined /\ state.auth.jwt # Str("")

\* the headers a request had when it reached the middleware
GivenHeaders(e) ==
  IF e.given.options.headers = Undefined
    THEN [authorization |-> Undefined, accept |-> Undefined]
    ELSE e.given.options.headers

\* C26: a request leaves the middleware with the authorization header
\* "Bearer <jwt>", jwt being what the auth state holds when the request passes,
\* if and only if the auth state holds a jwt then; when it holds none the
\* middleware sets no authorization header, the request keeps the one it had
\* (none, when it had none); the other headers are kept in both cases.
AuthorizationFollowsJwt ==
  \A e \in Invocations("middleware") :
    /\ HoldsJwt(e.state) =>
         e.sent.options.headers.authorization
           = Str("Bearer " \o e.state.auth.jwt.value)
    /\ ~HoldsJwt(e.state) =>
         e.sent.options.headers.authorization = GivenHeaders(e).authorization
    /\ e.sent.options.headers.accept = GivenHeaders(e).accept

\* a request that carried a jwt, then after the jwt was cleared a request
\* without authorization header; or after a login with another jwt a request
\* with the new one
AuthorizationFollowsJwtWitness ==
  /\ Len(chain) = 2
  /\ chain[1].kind = "middleware"
  /\ chain[2].kind = "middleware"
  /\ chain[1].sent.options.headers.authorization = Str("Bearer a")
  /\ chain[2].state.auth.jwt = Undefined
  /\ chain[2].sent.options.headers.authorization = Undefined
  /\ auth.jwt = Undefined

\* the first operation definition of a document is a subscription
MainIsSubscription(query) ==
  \E i \in 1..Len(query) :
    /\ query[i].kind = "OperationDefinition"
    /\ query[i].operation = "subscription"
    /\ \A k \in 1..(i - 1) : query[k].kind # "OperationDefinition"

\* C27: an operation passes the redux link first and then one transport: the
\* WebSocket link if and only if its main definition is an operation
\* definition with operation subscription, the HTTP link otherwise, so for
\* every query and every mutation.
RoutedByMainDefinition ==
  \A e \in Invocations("link") :
    /\ Len(e.path) = 2
    /\ e.path[1] = "reduxLink"
    /\ e.path[2] = "webSocketLink" <=> MainIsSubscription(e.query)
    /\ e.path[2] = "httpLink" <=> ~MainIsSubscription(e.query)

\* a subscription whose document begins with a fragment, and a mutation
RoutedByMainDefinitionWitness ==
  /\ Len(chain) = 2
  /\ chain[1].kind = "link"
  /\ chain[2].kind = "link"
  /\ Len(chain[1].query) = 2
  /\ chain[1].path = << "reduxLink", "webSocketLink" >>
  /\ chain[2].query[1].kind = "OperationDefinition"
  /\ chain[2].query[1].operation = "mutation"
  /\ chain[2].path = << "reduxLink", "httpLink" >>

\* C30: every invocation of the middleware and of the afterware calls next
\* once: with and without a jwt, with and without headers on the request,
\* with and without errors in the responses, with and without a logout.
NextCalledOnce ==
  \A e \in Invocations("middleware") \cup Invocations("afterware") :
    e.nexts = 1

\* a request without headers passing while no jwt is held, then a batch
\* that made the afterware dispatch logout
NextCalledOnceWitness ==
  /\ Len(chain) = 2
  /\ chain[1].kind = "middleware"
  /\ chain[1].given.options.headers = Undefined
  /\ ~HoldsJwt(chain[1].state)
  /\ chain[1].nexts = 1
  /\ chain[2].kind = "afterware"
  /\ chain[2].dispatched = << "logout" >>
  /\ chain[2].nexts = 1

\* C28: email uniqueness under signup: after any sequence or interleaving of
\* signup calls at most one user exists for each email.
EmailUnique ==
  \A u \in users, v \in users : u.email = v.email => u = v

\* the first edge of a group of the overview shows a message delivered for
\* that group than which none delivered for it was created later
ShowsLatest(g) ==
  overview[g].delivered # {} =>
    /\ Len(overview[g].edges) = 1
    /\ overview[g].edges[1].node \in overview[g].delivered
    /\ \A m \in overview[g].delivered :
         m.createdAt <= overview[g].edges[1].node.createdAt

\* the cache update of a step for group g: the first edge becomes the new
\* message if there was no edge or the first one was created before it, and
\* the edges stay as they were otherwise
UpdatesFirstEdge(g) ==
  \A message \in overview'[g].delivered \ overview[g].delivered :
    IF overview[g].edges = << >>
         \/ overview[g].edges[1].node.createdAt < message.createdAt
      THEN overview'[g].edges[1].node = message
      ELSE overview'[g].edges = overview[g].edges

\* C29: latest-message preview: each cache update sets the first edge of the
\* updated group to the new message if the list was empty or its first
\* message was created before the new one and leaves it otherwise; so after
\* any sequence of creations the preview of a group shows a message of the
\* latest createdAt delivered for the group.
PreviewShowsLatest ==
  /\ [](\A g \in Groups : ShowsLatest(g))
  /\ [][\A g \in Groups : UpdatesFirstEdge(g)]_vars

\* three messages of one group delivered, the one created last delivered
\* first: the preview still shows it
PreviewShowsLatestWitness ==
  \E g \in Groups :
    /\ Cardinality(overview[g].delivered) = MaxDelivered
    /\ overview[g].edges[1].node.id = 1
    /\ \A m \in overview[g].delivered :
         m.id # 1 => m.createdAt < overview[g].edges[1].node.createdAt

====
